---- MODULE Spec2Model ----
(***************************************************************************)
(* Model of the point-of-sale backend in src/main.py: the product lookup   *)
(* GET /product/{code} (get_product) and the purchase write path           *)
(* POST /purchase (purchase_items), run by several clients in parallel     *)
(* against one relational store.                                           *)
(*                                                                         *)
(* The store is modelled by its committed tables (what any other session   *)
(* can read).  Rows a session has flushed but not yet committed are the    *)
(* rows of its new_details while it stands between db.flush() and the      *)
(* final db.commit().                                                      *)
(***************************************************************************)
EXTENDS Integers, Sequences, FiniteSets, TLC

(***************************************************************************)
(* Bounds of the model.                                                    *)
(***************************************************************************)
NumCalls == 2
MaxItems == 2
MaxEmpLen == 2
MaxItemsFair == 1

Calls == 1..NumCalls

(***************************************************************************)
(* Seed data of m_product_okabe (created out of band).                     *)
(***************************************************************************)
Catalog ==
    { [PRD_ID |-> 1, CODE |-> "A", NAME |-> "apple", PRICE |-> 150],
      [PRD_ID |-> 2, CODE |-> "B", NAME |-> "bread", PRICE |-> 250] }

\* Codes a client may send: the two catalog codes and one unknown code.
Codes == {"A", "B", "X"}

\* The advisory (prd_name, price) a client sends with a code.
Advisory ==
    { [prd_name |-> "apple", price |-> 150],
      [prd_name |-> "fake", price |-> 1] }

\* Items of the parallel clients: one catalog code and the unknown code, with
\* the advisory name and price the lookup had shown.
PlainItems == { [code |-> c, prd_name |-> "apple", price |-> 150] : c \in {"A", "X"} }

RichItems ==
    { [code |-> c, prd_name |-> a.prd_name, price |-> a.price] :
        c \in Codes, a \in Advisory }

ItemLists(Items, n) == UNION { [1..k -> Items] : k \in 0..n }

\* Characters of an employee code; strings are sequences of characters.
EmpChars == {" ", "E"}

EmpInputs == UNION { [1..k -> EmpChars] : k \in 0..MaxEmpLen }

\* Requests of the parallel clients: a fixed clerk, plain items.
Requests ==
    [ emp_cd : {<<"E">>}, store_cd : {"S01"}, pos_no : {"P1"},
      items : ItemLists(PlainItems, MaxItems) ]

\* Requests of the parallel clients where whole behaviours are checked: the
\* same, with shorter item lists.
ShortRequests ==
    [ emp_cd : {<<"E">>}, store_cd : {"S01"}, pos_no : {"P1"},
      items : ItemLists(PlainItems, MaxItemsFair) ]

\* Requests of the single client: every employee code, every code and every
\* advisory name and price.
RichRequests ==
    [ emp_cd : EmpInputs, store_cd : {"S01"}, pos_no : {"P1"},
      items : ItemLists(RichItems, MaxItems) ]

(***************************************************************************)
(* State.                                                                  *)
(***************************************************************************)
VARIABLES
    products,        \* committed rows of m_product_okabe
    transactions,    \* committed rows of transactions_okabe
    details,         \* committed rows of transaction_details_okabe
    pc,              \* position of each purchase call
    request,         \* the PurchaseRequest of each call
    transaction_id,  \* local transaction_id (0: not yet assigned)
    max_dtl_id,      \* local max_dtl_id
    new_details,     \* local new_details
    total_amount,    \* local total_amount
    item_idx,        \* position of the for loop over request.items
    response,        \* the HTTP response of each call
    seen,            \* DTL_IDs committed when the call read the maximum
    lookup,          \* the last get_product request and its response
    session          \* the store session of each request

vars == << products, transactions, details, pc, request, transaction_id,
           max_dtl_id, new_details, total_amount, item_idx, response, seen,
           lookup, session >>

tables == << products, transactions, details >>

locals == << request, transaction_id, max_dtl_id, new_details, total_amount,
             item_idx, seen >>

(***************************************************************************)
(* str.strip() and the employee code default.                              *)
(***************************************************************************)
Whitespace == {" ", "\t", "\n", "\r"}

RECURSIVE LStrip(_)
LStrip(s) ==
    IF s = <<>> THEN s
    ELSE IF Head(s) \in Whitespace THEN LStrip(Tail(s)) ELSE s

RECURSIVE RStrip(_)
RStrip(s) ==
    IF s = <<>> THEN s
    ELSE IF s[Len(s)] \in Whitespace THEN RStrip(SubSeq(s, 1, Len(s) - 1)) ELSE s

Strip(s) == RStrip(LStrip(s))

Sentinel == << "9", "9", "9", "9", "9", "9", "9", "9", "9", "9" >>

\* Variant with the emptiness test made before the strip.
NormalizeEmpCdRawTest(s) == IF s # <<>> THEN Strip(s) ELSE Sentinel

\* request.emp_cd.strip() if request.emp_cd.strip() else '9999999999'
NormalizeEmpCd(s) == IF Strip(s) # <<>> THEN Strip(s) ELSE Sentinel

(***************************************************************************)
(* Queries.                                                                *)
(***************************************************************************)
NoProduct == [PRD_ID |-> 0, CODE |-> "", NAME |-> "", PRICE |-> 0]

\* Variant without the filter on CODE.
QueryAnyProduct(prods, code) ==
    IF prods = {} THEN NoProduct ELSE CHOOSE p \in prods : TRUE

\* db.query(Product).filter(Product.CODE == code).first()
QueryProduct(prods, code) ==
    IF \E p \in prods : p.CODE = code
    THEN CHOOSE p \in prods : p.CODE = code
    ELSE NoProduct

SetMax(S) == IF S = {} THEN 0 ELSE CHOOSE m \in S : \A x \in S : x <= m

\* coalesce(max(TransactionDetail.DTL_ID), 0)
MaxDtlId(rows) == SetMax({ d.DTL_ID : d \in rows })

\* AUTO_INCREMENT of transactions_okabe.TRD_ID
NextTrdId(rows) == SetMax({ t.TRD_ID : t \in rows }) + 1

(***************************************************************************)
(* Rows and local computations of purchase_items.                          *)
(***************************************************************************)
NewTransaction(trd_id, req) ==
    [ TRD_ID |-> trd_id, EMP_CD |-> NormalizeEmpCd(req.emp_cd),
      STORE_CD |-> req.store_cd, POS_NO |-> req.pos_no, TOTAL_AMT |-> 0 ]

\* Variant that uses the maximum without incrementing it.
NextDtlIdStale(m) == m

\* max_dtl_id += 1
NextDtlId(m) == m + 1

\* Variant that trusts the price sent by the caller.
ItemPriceAdvisory(item, product) == item.price

\* the price recorded for an item: product.PRICE
ItemPrice(item, product) == product.PRICE

\* Variant with DTL_ID and TRD_ID exchanged.
NewDetailSwapped(dtl_id, trd_id, item, product) ==
    [ DTL_ID |-> trd_id, TRD_ID |-> dtl_id, PRD_ID |-> product.PRD_ID,
      PRD_CODE |-> product.CODE, PRD_NAME |-> product.NAME,
      PRD_PRICE |-> product.PRICE ]

\* TransactionDetail(DTL_ID=..., TRD_ID=..., PRD_ID=..., ...)
NewDetail(dtl_id, trd_id, item, product) ==
    [ DTL_ID |-> dtl_id, TRD_ID |-> trd_id, PRD_ID |-> product.PRD_ID,
      PRD_CODE |-> product.CODE, PRD_NAME |-> product.NAME,
      PRD_PRICE |-> ItemPrice(item, product) ]

\* Variant with = in place of +=.
AddToTotalOverwrite(total, price) == price

\* total_amount += product.PRICE
AddToTotal(total, price) == total + price

\* Variant whose filter matches no row.
SetTotalAmtOfNone(rows, trd_id, total) == rows

\* Variant without the filter on TRD_ID.
SetTotalAmtOfAll(rows, trd_id, total) ==
    { [t EXCEPT !.TOTAL_AMT = total] : t \in rows }

\* db.query(Transaction).filter(Transaction.TRD_ID == transaction_id)
\*   .update({"TOTAL_AMT": total_amount})
SetTotalAmt(rows, trd_id, total) ==
    { IF t.TRD_ID = trd_id THEN [t EXCEPT !.TOTAL_AMT = total] ELSE t : t \in rows }

DtlIds(rows) == { rows[k].DTL_ID : k \in 1..Len(rows) }

\* Variant with db.add(detail) after the loop: only the last detail is added.
RowSetLastOnly(rows) == IF rows = <<>> THEN {} ELSE { rows[Len(rows)] }

\* for detail in new_details: db.add(detail)
RowSet(rows) == { rows[k] : k \in 1..Len(rows) }

\* Rows a session has flushed and not yet committed.
Flushed(c) ==
    IF pc[c] \in {"DetailsStaged", "TotalComputed"} THEN DtlIds(new_details[c]) ELSE {}

(***************************************************************************)
(* Responses.                                                              *)
(***************************************************************************)
NoResponse == [status |-> 0, success |-> FALSE, total_amount |-> 0, detail |-> <<>>]

Success(total) ==
    [status |-> 200, success |-> TRUE, total_amount |-> total, detail |-> <<>>]

\* HTTPException(status_code, detail)
HttpError(status, detail) ==
    [status |-> status, success |-> FALSE, total_amount |-> 0, detail |-> detail]

\* raise HTTPException(500, f"サーバーエラー: {str(e)}"): the message
\* carries the text of the exception that was caught.
ServerError(detail) == HttpError(500, <<"ServerError">> \o detail)

NoLookup == [code |-> "", status |-> 0, body |-> <<>>]

(***************************************************************************)
(* The session of a request (get_db).  Purchase calls are the clients in   *)
(* Calls; the lookups share one more client.                               *)
(***************************************************************************)
LookupClient == 0

\* db = SessionLocal()
OpenSession == "open"

\* Variant without the finally clause.
CloseSessionMissing(s) == s

\* finally: db.close()
CloseSession(s) == "closed"

(***************************************************************************)
(* Initial state: the seeded catalog, empty transaction tables, no call.   *)
(***************************************************************************)
Init ==
    /\ products = Catalog
    /\ transactions = {}
    /\ details = {}
    /\ pc = [c \in Calls |-> "Idle"]
    /\ request = [c \in Calls |->
                    [emp_cd |-> <<>>, store_cd |-> "", pos_no |-> "", items |-> <<>>]]
    /\ transaction_id = [c \in Calls |-> 0]
    /\ max_dtl_id = [c \in Calls |-> 0]
    /\ new_details = [c \in Calls |-> <<>>]
    /\ total_amount = [c \in Calls |-> 0]
    /\ item_idx = [c \in Calls |-> 0]
    /\ response = [c \in Calls |-> NoResponse]
    /\ seen = [c \in Calls |-> {}]
    /\ lookup = NoLookup
    /\ session = [r \in Calls \cup {LookupClient} |-> "none"]

(***************************************************************************)
(* GET /product/{code}                                                     *)
(***************************************************************************)
ProductBody(p) == << p.CODE, p.NAME, p.PRICE >>

LookupResult(prods, code) ==
    LET product == QueryProduct(prods, code) IN
    IF product = NoProduct
    THEN [code |-> code, status |-> 404, body |-> <<>>]
    ELSE [code |-> code, status |-> 200, body |-> ProductBody(product)]

GetProduct(code) ==
    /\ lookup' = LookupResult(products, code)
    /\ session' = [session EXCEPT ![LookupClient] = CloseSession(OpenSession)]
    /\ UNCHANGED << tables, pc, locals, response >>

(***************************************************************************)
(* POST /purchase                                                          *)
(***************************************************************************)
\* The request arrives and the handler is entered.
Start(c, req) ==
    /\ pc[c] = "Idle"
    /\ pc' = [pc EXCEPT ![c] = "Started"]
    /\ request' = [request EXCEPT ![c] = req]
    /\ session' = [session EXCEPT ![c] = OpenSession]
    /\ UNCHANGED << tables, transaction_id, max_dtl_id, new_details,
                    total_amount, item_idx, seen, response, lookup >>

\* Variant that rolls back and runs the handler again instead of raising.
FailWithRetry(c, detail) ==
    /\ pc' = [pc EXCEPT ![c] = "Started"]
    /\ UNCHANGED << tables, locals, response, lookup, session >>

\* except Exception: db.rollback(), then the 500 response.  The rollback
\* discards the rows flushed since the last commit; committed rows stay.
\* The finally clauses close the session on the way out.
Fail(c, detail) ==
    /\ pc' = [pc EXCEPT ![c] = "Failed"]
    /\ response' = [response EXCEPT ![c] = ServerError(detail)]
    /\ session' = [session EXCEPT ![c] = CloseSession(@)]
    /\ UNCHANGED << tables, locals, lookup >>

\* The header is added and committed at once, with TOTAL_AMT = 0.
InsertHeader(c) ==
    /\ pc[c] = "Started"
    /\ LET trd_id == NextTrdId(transactions) IN
        /\ transactions' = transactions \cup {NewTransaction(trd_id, request[c])}
        /\ transaction_id' = [transaction_id EXCEPT ![c] = trd_id]
    /\ total_amount' = [total_amount EXCEPT ![c] = 0]
    /\ pc' = [pc EXCEPT ![c] = "HeaderStaged"]
    /\ UNCHANGED << products, details, request, max_dtl_id, new_details,
                    item_idx, seen, response, lookup, session >>

\* The maximum DTL_ID is read once, from the committed rows.
ReadMax(c) ==
    /\ pc[c] = "HeaderStaged"
    /\ max_dtl_id' = [max_dtl_id EXCEPT ![c] = MaxDtlId(details)]
    /\ seen' = [seen EXCEPT ![c] = { d.DTL_ID : d \in details }]
    /\ new_details' = [new_details EXCEPT ![c] = <<>>]
    /\ item_idx' = [item_idx EXCEPT ![c] = 1]
    /\ pc' = [pc EXCEPT ![c] = "ItemsResolving"]
    /\ UNCHANGED << tables, request, transaction_id, total_amount, response, lookup, session >>

\* One pass of the for loop: resolve the item, or raise on a miss.
ResolveItem(c) ==
    /\ pc[c] = "ItemsResolving"
    /\ item_idx[c] <= Len(request[c].items)
    /\ LET item == request[c].items[item_idx[c]]
           product == QueryProduct(products, item.code)
           dtl_id == NextDtlId(max_dtl_id[c])
       IN IF product = NoProduct
          THEN Fail(c, << "404", item.code >>)
          ELSE /\ max_dtl_id' = [max_dtl_id EXCEPT ![c] = dtl_id]
               /\ new_details' = [new_details EXCEPT ![c] =
                      Append(@, NewDetail(dtl_id, transaction_id[c], item, product))]
               /\ total_amount' = [total_amount EXCEPT ![c] =
                      AddToTotal(@, ItemPrice(item, product))]
               /\ item_idx' = [item_idx EXCEPT ![c] = @ + 1]
               /\ UNCHANGED << tables, pc, request, transaction_id, seen,
                               response, lookup, session >>

\* db.add(detail) for every detail, then db.flush(): the INSERTs run inside
\* the open database transaction.  An INSERT of a DTL_ID another session has
\* flushed and not committed waits for that session; an INSERT of a committed
\* DTL_ID violates the primary key.
Flush(c) ==
    /\ pc[c] = "ItemsResolving"
    /\ item_idx[c] > Len(request[c].items)
    /\ \A o \in Calls \ {c} : Flushed(o) \cap DtlIds(new_details[c]) = {}
    /\ IF DtlIds(new_details[c]) \cap { d.DTL_ID : d \in details } # {}
       THEN Fail(c, << "IntegrityError", "DTL_ID" >>)
       ELSE /\ pc' = [pc EXCEPT ![c] = "DetailsStaged"]
            /\ UNCHANGED << tables, locals, response, lookup, session >>

\* The UPDATE of the header's TOTAL_AMT, inside the open transaction.
UpdateTotal(c) ==
    /\ pc[c] = "DetailsStaged"
    /\ pc' = [pc EXCEPT ![c] = "TotalComputed"]
    /\ UNCHANGED << tables, locals, response, lookup, session >>

\* Variant in which the resolved Product objects were assigned the caller's
\* price, so that the commit writes them back.
CommitWithDirtyProducts(c) ==
    /\ pc[c] = "TotalComputed"
    /\ details' = details \cup RowSet(new_details[c])
    /\ transactions' = SetTotalAmt(transactions, transaction_id[c], total_amount[c])
    /\ products' =
          { IF \E k \in 1..Len(request[c].items) : request[c].items[k].code = p.CODE
            THEN [p EXCEPT !.PRICE =
                    request[c].items[CHOOSE k \in 1..Len(request[c].items) :
                                        request[c].items[k].code = p.CODE].price]
            ELSE p : p \in products }
    /\ pc' = [pc EXCEPT ![c] = "Committed"]
    /\ response' = [response EXCEPT ![c] = Success(total_amount[c])]
    /\ session' = [session EXCEPT ![c] = CloseSession(@)]
    /\ UNCHANGED << locals, lookup >>

\* The final commit publishes the details and the total; then the response,
\* and the finally clauses close the session.
Commit(c) ==
    /\ pc[c] = "TotalComputed"
    /\ details' = details \cup RowSet(new_details[c])
    /\ transactions' = SetTotalAmt(transactions, transaction_id[c], total_amount[c])
    /\ pc' = [pc EXCEPT ![c] = "Committed"]
    /\ response' = [response EXCEPT ![c] = Success(total_amount[c])]
    /\ session' = [session EXCEPT ![c] = CloseSession(@)]
    /\ UNCHANGED << products, locals, lookup >>

\* A statement or commit fails for a reason outside the program (the store
\* is unreachable): the exception reaches the except clause.
PersistenceFault(c) ==
    /\ pc[c] \in {"Started", "HeaderStaged", "ItemsResolving", "DetailsStaged",
                  "TotalComputed"}
    /\ Fail(c, << "OperationalError", pc[c] >>)

(***************************************************************************)
(* Specifications.                                                         *)
(***************************************************************************)
\* Purchase calls of NumCalls clients in parallel, every interleaving of
\* their steps, against a store that stays reachable.
Next ==
    \/ \E c \in Calls, req \in Requests : Start(c, req)
    \/ \E c \in Calls : InsertHeader(c)
    \/ \E c \in Calls : ReadMax(c)
    \/ \E c \in Calls : ResolveItem(c)
    \/ \E c \in Calls : Flush(c)
    \/ \E c \in Calls : UpdateTotal(c)
    \/ \E c \in Calls : Commit(c)

Spec == Init /\ [][Next]_vars

\* One purchase call with every input, lookups in between its steps, and a
\* store that may fail at any statement.
NextInputs ==
    \/ \E req \in RichRequests : Start(1, req)
    \/ InsertHeader(1)
    \/ ReadMax(1)
    \/ ResolveItem(1)
    \/ Flush(1)
    \/ UpdateTotal(1)
    \/ Commit(1)
    \/ PersistenceFault(1)
    \/ \E code \in Codes : GetProduct(code)

SpecInputs == Init /\ [][NextInputs]_vars

\* The steps of the handler of call c.  The server runs a handler it has
\* entered until it returns or raises; a flush that waits for another
\* session goes on when that session commits or rolls back.
Handler(c) ==
    \/ InsertHeader(c)
    \/ ReadMax(c)
    \/ ResolveItem(c)
    \/ Flush(c)
    \/ UpdateTotal(c)
    \/ Commit(c)

\* Parallel purchase calls with item lists of up to MaxItemsFair items,
\* each handler running to its end.
NextFair ==
    \/ \E c \in Calls, req \in ShortRequests : Start(c, req)
    \/ \E c \in Calls : InsertHeader(c)
    \/ \E c \in Calls : ReadMax(c)
    \/ \E c \in Calls : ResolveItem(c)
    \/ \E c \in Calls : Flush(c)
    \/ \E c \in Calls : UpdateTotal(c)
    \/ \E c \in Calls : Commit(c)

FairSpec == Init /\ [][NextFair]_vars /\ \A c \in Calls : WF_vars(Handler(c))

FairSpecInputs == SpecInputs /\ WF_vars(Handler(1))

(***************************************************************************)
(* Vocabulary of the properties.                                           *)
(***************************************************************************)
CatalogCodes == { p.CODE : p \in products }

HasMiss(items) == \E k \in 1..Len(items) : items[k].code \notin CatalogCodes

Ended(c) == pc[c] \in {"Committed", "Failed"}

InFlight(c) == pc[c] \in {"Started", "HeaderStaged", "ItemsResolving",
                          "DetailsStaged", "TotalComputed"}

\* Committed rows written by call c.
HeaderRows(c) ==
    { t \in transactions : transaction_id[c] # 0 /\ t.TRD_ID = transaction_id[c] }

DetailRows(c) ==
    { d \in details : transaction_id[c] # 0 /\ d.TRD_ID = transaction_id[c] }

\* The call ended because an item code did not resolve (line 130).
EndedOnMiss(c) ==
    /\ pc[c] = "Failed"
    /\ Len(response[c].detail) = 3
    /\ response[c].detail[2] = "404"

\* The call ended because the flush, the total update or the final commit
\* failed.
EndedOnPersistence(c) ==
    /\ pc[c] = "Failed"
    /\ Len(response[c].detail) = 3
    /\ \/ response[c].detail[2] = "IntegrityError"
       \/ /\ response[c].detail[2] = "OperationalError"
          /\ \/ response[c].detail[3] \in {"DetailsStaged", "TotalComputed"}
             \/ /\ response[c].detail[3] = "ItemsResolving"
                /\ item_idx[c] > Len(request[c].items)

(***************************************************************************)
(* C1: after a purchase call that met an unknown item code has ended, the  *)
(* committed store holds no Transaction row and no TransactionDetail row   *)
(* written by that call.  The code commits the header at line 115, before  *)
(* the items are resolved, and the rollback of line 159 cannot undo it.    *)
(***************************************************************************)
C1_NoRowsAfterMiss ==
    \A c \in Calls :
        (EndedOnMiss(c) /\ HasMiss(request[c].items))
            => (HeaderRows(c) = {} /\ DetailRows(c) = {})

(***************************************************************************)
(* C2: a purchase call in which an item code does not resolve ends with    *)
(* status 404 and a message naming the code, never with status 500 and     *)
(* never with success.  The code raises the 404 inside the try block, and  *)
(* the except clause answers 500.                                          *)
(***************************************************************************)
C2_MissIsNotFound ==
    \A c \in Calls :
        EndedOnMiss(c) =>
            /\ response[c].status = 404
            /\ response[c].detail[3] \in
                   { request[c].items[k].code : k \in 1..Len(request[c].items) }
                       \ CatalogCodes
            /\ ~response[c].success

(***************************************************************************)
(* C3: in every state the committed store holds, of each purchase call,    *)
(* either nothing or the header with all detail rows and the final total.  *)
(***************************************************************************)
C3_SingleCommit ==
    \A c \in Calls :
        \/ HeaderRows(c) = {} /\ DetailRows(c) = {}
        \/ /\ pc[c] = "Committed"
           /\ Len(new_details[c]) = Len(request[c].items)
           /\ DetailRows(c) = RowSet(new_details[c])
           /\ \A t \in HeaderRows(c) : t.TOTAL_AMT = total_amount[c]

(***************************************************************************)
(* C4: a purchase call whose codes all resolve and that fails at the       *)
(* detail flush, the total update or the final commit ends with status     *)
(* 500 and leaves neither its header nor any detail row in the committed   *)
(* store.                                                                  *)
(***************************************************************************)
C4_NoRowsAfterPersistenceFailure ==
    \A c \in Calls :
        (EndedOnPersistence(c) /\ ~HasMiss(request[c].items))
            => /\ response[c].status = 500
               /\ HeaderRows(c) = {}
               /\ DetailRows(c) = {}

(***************************************************************************)
(* C5: two purchase calls that run at the same time never assign the same  *)
(* DTL_ID.                                                                 *)
(***************************************************************************)
C5_DisjointIdsAcrossCalls ==
    \A c1, c2 \in Calls :
        (c1 # c2 /\ InFlight(c1) /\ InFlight(c2))
            => DtlIds(new_details[c1]) \cap DtlIds(new_details[c2]) = {}

(***************************************************************************)
(* C6: the total_amount of a successful purchase call is the sum, over     *)
(* the request items in order and once per occurrence, of the catalog      *)
(* PRICE of the item's code; the prd_name and price sent by the caller     *)
(* reach neither the response nor a persisted row.                         *)
(***************************************************************************)
CatalogEntry(code) == CHOOSE p \in products : p.CODE = code

RECURSIVE CatalogSum(_)
CatalogSum(items) ==
    IF items = <<>> THEN 0
    ELSE CatalogEntry(Head(items).code).PRICE + CatalogSum(Tail(items))

C6_TotalIsCatalogSum ==
    \A c \in Calls :
        response[c].success =>
            /\ response[c].total_amount = CatalogSum(request[c].items)
            /\ \A t \in HeaderRows(c) : t.TOTAL_AMT = CatalogSum(request[c].items)
            /\ \A d \in DetailRows(c) :
                   /\ d.PRD_CODE \in CatalogCodes
                   /\ d.PRD_NAME = CatalogEntry(d.PRD_CODE).NAME
                   /\ d.PRD_PRICE = CatalogEntry(d.PRD_CODE).PRICE

\* A successful call that sent the same code twice, with a name and a price
\* that differ from the catalog's.
C6_Witness ==
    \E c \in Calls :
        /\ response[c].success
        /\ Len(request[c].items) = 2
        /\ request[c].items[1].code = request[c].items[2].code
        /\ request[c].items[1].price # CatalogEntry(request[c].items[1].code).PRICE
        /\ request[c].items[1].prd_name # CatalogEntry(request[c].items[1].code).NAME
        /\ Cardinality(DetailRows(c)) = 2

(***************************************************************************)
(* C7: in every state, a committed Transaction row of a finalized call     *)
(* has TOTAL_AMT equal to the sum of PRD_PRICE over the committed detail   *)
(* rows with its TRD_ID, and a committed Transaction row of a call that    *)
(* is not finalized has TOTAL_AMT 0.                                       *)
(***************************************************************************)
RECURSIVE SumPrices(_)
SumPrices(rows) ==
    IF rows = {} THEN 0
    ELSE LET d == CHOOSE x \in rows : TRUE IN d.PRD_PRICE + SumPrices(rows \ {d})

Finalized(t) == \E c \in Calls : transaction_id[c] = t.TRD_ID /\ pc[c] = "Committed"

C7_TotalInvariant ==
    \A t \in transactions :
        IF Finalized(t)
        THEN t.TOTAL_AMT = SumPrices({ d \in details : d.TRD_ID = t.TRD_ID })
        ELSE t.TOTAL_AMT = 0

\* A finalized transaction with two detail rows next to the header of a call
\* that is still running.
C7_Witness ==
    \E t, u \in transactions :
        /\ Finalized(t)
        /\ Cardinality({ d \in details : d.TRD_ID = t.TRD_ID }) = 2
        /\ t.TOTAL_AMT > 0
        /\ \E c \in Calls : InFlight(c) /\ transaction_id[c] = u.TRD_ID

(***************************************************************************)
(* C8: within one purchase call the k-th detail gets the maximum read at   *)
(* the start of the call plus k, so the DTL_IDs are distinct and strictly  *)
(* increasing in item order, and none is the DTL_ID of a row that was in   *)
(* the table when the maximum was read.                                    *)
(***************************************************************************)
C8_IdsWithinCall ==
    \A c \in Calls :
        \A k \in 1..Len(new_details[c]) :
            /\ new_details[c][k].DTL_ID = SetMax(seen[c]) + k
            /\ new_details[c][k].DTL_ID \notin seen[c]
            /\ \A j \in 1..(k - 1) : new_details[c][j].DTL_ID < new_details[c][k].DTL_ID

\* A call that numbered two details on top of rows that were already there.
C8_Witness ==
    \E c \in Calls : Len(new_details[c]) = 2 /\ seen[c] # {}

(***************************************************************************)
(* C9: the EMP_CD of a persisted header is the sentinel when the supplied  *)
(* emp_cd is empty or whitespace only, and otherwise the supplied code.    *)
(***************************************************************************)
Blank(s) == \A k \in 1..Len(s) : s[k] \in Whitespace

C9_EmpCdAsSupplied ==
    \A c \in Calls : \A t \in HeaderRows(c) :
        /\ t.EMP_CD = IF Blank(request[c].emp_cd) THEN Sentinel ELSE request[c].emp_cd
        /\ ~Blank(t.EMP_CD)

\* C9 as the code has it: the sentinel for a blank emp_cd, and otherwise the
\* supplied code without its leading and trailing whitespace; never blank.
IsTrimOf(t, s) ==
    \E a, b \in 0..Len(s) :
        /\ a + b < Len(s)
        /\ \A k \in 1..a : s[k] \in Whitespace
        /\ \A k \in (Len(s) - b + 1)..Len(s) : s[k] \in Whitespace
        /\ t = SubSeq(s, a + 1, Len(s) - b)
        /\ t[1] \notin Whitespace
        /\ t[Len(t)] \notin Whitespace

C9_EmpCdNormalized ==
    \A c \in Calls : \A t \in HeaderRows(c) :
        /\ IF Blank(request[c].emp_cd)
           THEN t.EMP_CD = Sentinel
           ELSE IsTrimOf(t.EMP_CD, request[c].emp_cd)
        /\ ~Blank(t.EMP_CD)

\* A header stored for an emp_cd with whitespace around the code.
C9_Witness ==
    \E c \in Calls : \E t \in HeaderRows(c) :
        /\ request[c].emp_cd = << " ", "E" >>
        /\ t.EMP_CD = << "E" >>

(***************************************************************************)
(* C10: get_product answers a catalog code with the stored CODE, NAME and  *)
(* PRICE of that product and any other code with 404, and changes no       *)
(* table.                                                                  *)
(***************************************************************************)
LookupAnswered(l) ==
    IF l.code \in CatalogCodes
    THEN /\ l.status = 200
         /\ \E p \in products : p.CODE = l.code /\ l.body = << p.CODE, p.NAME, p.PRICE >>
    ELSE l.status = 404 /\ l.body = <<>>

C10_Lookup ==
    [][ lookup' # lookup =>
            (LookupAnswered(lookup') /\ UNCHANGED << products, transactions, details >>)
      ]_vars

\* A lookup answered from the catalog while the purchase tables hold rows.
C10_Witness ==
    /\ lookup.status = 200
    /\ lookup.body = << "B", "bread", 250 >>
    /\ details # {}

(***************************************************************************)
(* C11: every request that has acquired a store session releases it, on    *)
(* success, on a miss and on an unexpected fault: an open session is       *)
(* eventually closed, and the session of a request that has ended is       *)
(* closed.                                                                 *)
(***************************************************************************)
C11_SessionReleased ==
    /\ [](\A c \in Calls : Ended(c) => session[c] = "closed")
    /\ [](lookup # NoLookup => session[LookupClient] = "closed")
    /\ \A c \in Calls : (session[c] = "open") ~> (session[c] = "closed")

\* A purchase call has ended on an unexpected fault and a lookup on a miss;
\* both sessions are closed.
C11_Witness ==
    /\ pc[1] = "Failed"
    /\ response[1].detail[2] = "OperationalError"
    /\ session[1] = "closed"
    /\ lookup.status = 404
    /\ session[LookupClient] = "closed"

(***************************************************************************)
(* C12: a successful purchase call with N items has persisted one header   *)
(* row and N detail rows with the header's TRD_ID; in the order of their   *)
(* DTL_IDs, the i-th row holds the PRD_ID, CODE, NAME and PRICE of the     *)
(* catalog product with the code of the i-th request item.                 *)
(***************************************************************************)
\* The i-th row of a set of detail rows in the order of DTL_ID.
NthByDtlId(rows, i) ==
    CHOOSE d \in rows : Cardinality({ e \in rows : e.DTL_ID < d.DTL_ID }) = i - 1

C12_RowsOfSuccess ==
    \A c \in Calls :
        response[c].success =>
            LET n == Len(request[c].items) IN
            /\ Cardinality(HeaderRows(c)) = 1
            /\ Cardinality(DetailRows(c)) = n
            /\ Cardinality({ d.DTL_ID : d \in DetailRows(c) }) = n
            /\ \A i \in 1..n :
                 LET d == NthByDtlId(DetailRows(c), i)
                     p == CatalogEntry(request[c].items[i].code)
                 IN /\ d.PRD_ID = p.PRD_ID
                    /\ d.PRD_CODE = p.CODE
                    /\ d.PRD_NAME = p.NAME
                    /\ d.PRD_PRICE = p.PRICE

\* A successful call for two different products, bread before apple.
C12_Witness ==
    \E c \in Calls :
        /\ response[c].success
        /\ Len(request[c].items) = 2
        /\ request[c].items[1].code = "B"
        /\ request[c].items[2].code = "A"
        /\ Cardinality(DetailRows(c)) = 2

(***************************************************************************)
(* C13: in every state of the committed store, every TransactionDetail     *)
(* row carries the TRD_ID of an existing Transaction row and the PRD_ID    *)
(* of a catalog product.                                                   *)
(***************************************************************************)
C13_Referential ==
    \A d \in details :
        /\ \E t \in transactions : t.TRD_ID = d.TRD_ID
        /\ \E p \in products : p.PRD_ID = d.PRD_ID

\* Detail rows of two transactions are committed.
C13_Witness ==
    \E d, e \in details : d.TRD_ID # e.TRD_ID

(***************************************************************************)
(* C14: a purchase call passes Started, HeaderStaged, ItemsResolving,      *)
(* DetailsStaged, TotalComputed, Committed in this order, without          *)
(* skipping or revisiting a phase; no detail row is written before every   *)
(* item is resolved; the header's total is written once, after the detail  *)
(* rows; a resolution miss enters Failed, and Failed leaves nothing of the *)
(* call in the store.  The parts are stated one by one; the code keeps     *)
(* all but the last.                                                       *)
(***************************************************************************)
PhaseSteps ==
    { << "Idle", "Started" >>, << "Started", "HeaderStaged" >>,
      << "HeaderStaged", "ItemsResolving" >>, << "ItemsResolving", "DetailsStaged" >>,
      << "DetailsStaged", "TotalComputed" >>, << "TotalComputed", "Committed" >> }

HeaderTotal(c, rows) == { t.TOTAL_AMT : t \in { u \in rows : u.TRD_ID = transaction_id[c] } }

C14_PhaseOrder ==
    \A c \in Calls :
        pc'[c] # pc[c] =>
            \/ << pc[c], pc'[c] >> \in PhaseSteps
            \/ InFlight(c) /\ pc'[c] = "Failed"

C14_DetailsAfterResolution ==
    \A c \in Calls :
        (Flushed(c)' # {} \/ DetailRows(c)' # {}) =>
            /\ item_idx'[c] > Len(request'[c].items)
            /\ Len(new_details'[c]) = Len(request'[c].items)

C14_TotalOnceAfterDetails ==
    \A c \in Calls :
        (transaction_id[c] # 0 /\ HeaderTotal(c, transactions') # HeaderTotal(c, transactions)) =>
            /\ pc[c] = "TotalComputed"
            /\ pc'[c] = "Committed"
            /\ RowSet(new_details[c]) \subseteq details'

C14_MissEntersFailed ==
    \A c \in Calls :
        ( /\ pc[c] = "ItemsResolving"
          /\ item_idx[c] <= Len(request[c].items)
          /\ request[c].items[item_idx[c]].code \notin CatalogCodes
          /\ << pc[c], item_idx[c] >> # << pc'[c], item_idx'[c] >> )
            => pc'[c] = "Failed"

C14_FailedRollsBack ==
    \A c \in Calls :
        pc'[c] = "Failed" => (HeaderRows(c)' = {} /\ DetailRows(c)' = {})

\* The parts of C14 that the code keeps.
C14_OrderOfSteps ==
    [][ /\ C14_PhaseOrder
        /\ C14_DetailsAfterResolution
        /\ C14_TotalOnceAfterDetails
        /\ C14_MissEntersFailed ]_vars

\* C14 as claimed.
C14_StepOrderAndRollback ==
    [][ /\ C14_PhaseOrder
        /\ C14_DetailsAfterResolution
        /\ C14_TotalOnceAfterDetails
        /\ C14_MissEntersFailed
        /\ C14_FailedRollsBack ]_vars

(***************************************************************************)
(* C15: once a purchase call has reached Committed, no later step of that  *)
(* call or of any other call changes or removes its Transaction row or     *)
(* its TransactionDetail rows.                                             *)
(***************************************************************************)
C15_CommittedIsTerminal ==
    [][ \A c \in Calls :
            pc[c] = "Committed" =>
                /\ pc'[c] = "Committed"
                /\ HeaderRows(c)' = HeaderRows(c)
                /\ DetailRows(c)' = DetailRows(c) ]_vars

\* A call with detail rows is committed, and another call has since gone
\* through its own commit or its own failure.
C15_Witness ==
    \E c, o \in Calls :
        /\ c # o
        /\ pc[c] = "Committed"
        /\ DetailRows(c) # {}
        /\ transaction_id[c] < transaction_id[o]
        /\ Ended(o)

(***************************************************************************)
(* C16: no step of a purchase call or of a lookup, successful or failed,   *)
(* rollback included, adds, removes or changes a Product row.              *)
(***************************************************************************)
C16_CatalogReadOnly == [][products' = products]_vars

\* A purchase with a tampered price is committed and a lookup has been
\* answered; the catalog is the seeded one.
C16_Witness ==
    /\ pc[1] = "Committed"
    /\ \E k \in 1..Len(request[1].items) :
           request[1].items[k].price # CatalogEntry(request[1].items[k].code).PRICE
    /\ lookup.status = 200
    /\ products = Catalog

(***************************************************************************)
(* C17: two purchase calls whose item codes all exist and that run in      *)
(* parallel both reach Committed and both return success, under every      *)
(* interleaving; neither fails because of the other.  Stated on the end    *)
(* of the calls: with a store that stays reachable, a call whose codes     *)
(* all exist never ends in Failed.                                         *)
(***************************************************************************)
C17_ParallelCallsIndependent ==
    \A c \in Calls :
        (pc[c] # "Idle" /\ ~HasMiss(request[c].items))
            => /\ pc[c] # "Failed"
               /\ (Ended(c) => response[c].success)

(***************************************************************************)
(* C18: a purchase call returns success only after its final commit, the   *)
(* total_amount it returns is the TOTAL_AMT of its committed header row,   *)
(* and a call that ended in Failed never returns success.                  *)
(***************************************************************************)
C18_SuccessAfterCommit ==
    \A c \in Calls :
        /\ response[c].success =>
              /\ pc[c] = "Committed"
              /\ HeaderRows(c) # {}
              /\ \A t \in HeaderRows(c) : t.TOTAL_AMT = response[c].total_amount
              /\ DetailRows(c) = RowSet(new_details[c])
        /\ pc[c] = "Failed" => (~response[c].success /\ response[c].status # 200)
        /\ InFlight(c) => response[c] = NoResponse

\* A call has returned success with the total of two items.
C18_Witness ==
    \E c \in Calls :
        /\ response[c].success
        /\ response[c].total_amount = 400
        /\ \E t \in HeaderRows(c) : t.TOTAL_AMT = 400

(***************************************************************************)
(* C19: every purchase call ends, in Committed or in Failed, and there is  *)
(* no retry: a call inserts a header at most once, an ended call stays     *)
(* ended, and after Failed the call writes nothing to the store.           *)
(***************************************************************************)
C19_NoRetry ==
    \A c \in Calls :
        /\ transaction_id[c] # 0 =>
              /\ transaction_id'[c] = transaction_id[c]
              /\ Cardinality(HeaderRows(c)') = 1
        /\ Ended(c) => pc'[c] = pc[c]
        /\ pc[c] = "Failed" =>
              /\ HeaderRows(c)' = HeaderRows(c)
              /\ DetailRows(c)' = DetailRows(c)
              /\ new_details'[c] = new_details[c]

C19_EndsOnceNoRetry ==
    /\ <>[](\A c \in Calls : pc[c] = "Idle" \/ Ended(c))
    /\ [][C19_NoRetry]_vars

\* One call has ended in Committed and one in Failed on a duplicate DTL_ID,
\* after waiting for the other's commit.
C19_Witness ==
    \E c, o \in Calls :
        /\ pc[c] = "Committed"
        /\ pc[o] = "Failed"
        /\ response[o].detail[2] = "IntegrityError"

====
